---- MODULE Spec2Model ----
(***************************************************************************)
(* Model of the binary glTF (.glb) container decoder of src/src/glb.rs:    *)
(* Header::from_reader, ChunkHeader::from_reader, Glb::from_slice,         *)
(* Glb::from_reader and Glb::from_v2.                                      *)
(*                                                                         *)
(* A byte is a number in 0..255 and a byte range is a sequence of bytes.   *)
(* Results are records tagged by `kind`: "Ok" or one GlbError variant.     *)
(* "Panic" is the outcome of a slice::split_at whose index is beyond the   *)
(* end of the slice.                                                       *)
(***************************************************************************)
EXTENDS Integers, Sequences, FiniteSets, TLC

\* ------------------------------------------------------------------ bounds
MaxJson == 2      \* longest JSON payload generated
MaxBin == 2       \* longest BIN payload generated
MaxTrail == 1     \* most bytes generated after the last chunk
MaxStale == 2     \* most bytes in the caller's buffer before the call
BigLen == 258     \* a declared container length needing two bytes

\* a declared chunk length using all four bytes of the field (0x01010101)
HugeLen == 16777216 + 65536 + 256 + 1

\* ------------------------------------------------------- byte-level helpers
Min(a, b) == IF a < b THEN a ELSE b

Take(s, n) == SubSeq(s, 1, Min(n, Len(s)))

Drop(s, n) == SubSeq(s, Min(n, Len(s)) + 1, Len(s))

\* the writer's side of a little-endian u32 (used to build inputs only)
U32LE(n) ==
    << n % 256, (n \div 256) % 256, (n \div 65536) % 256,
       (n \div 16777216) % 256 >>

\* b"glTF"
MagicGLTF == <<103, 108, 84, 70>>

\* b"JSON"
TagJSON == <<74, 83, 79, 78>>

\* b"BIN\0"
TagBIN == <<66, 73, 78, 0>>

\* ------------------------------------------------------------- error values
IoError == [kind |-> "Io"]

MagicError(m) == [kind |-> "Magic", magic |-> m]

VersionError(x) == [kind |-> "Version", version |-> x]

LengthError(l, r) == [kind |-> "Length", length |-> l, length_read |-> r]

ChunkLengthError(t, l, r) ==
    [kind |-> "ChunkLength", ty |-> t, length |-> l, length_read |-> r]

ChunkTypeError(t) == [kind |-> "ChunkType", ty |-> t]

Panic == [kind |-> "Panic"]

\* Option<&[u8]>: None is <<>>, Some(x) is <<x>>
None == <<>>

Some(x) == <<x>>

\* ------------------------------------------------ io::Read for a byte slice
\* read_exact: all n bytes or an UnexpectedEof error
read_exact(data, n) ==
    IF Len(data) < n
    THEN [ok |-> FALSE, bytes |-> <<>>, rest |-> data]
    ELSE [ok |-> TRUE, bytes |-> SubSeq(data, 1, n),
          rest |-> SubSeq(data, n + 1, Len(data))]

\* a reader of the field most significant byte first
read_u32_BE(data) ==
    LET r == read_exact(data, 4)
    IN  IF r.ok
        THEN [ok |-> TRUE,
              val |-> r.bytes[4] + 256 * r.bytes[3] + 65536 * r.bytes[2]
                      + 16777216 * r.bytes[1],
              rest |-> r.rest]
        ELSE [ok |-> FALSE, val |-> 0, rest |-> r.rest]

\* read_u32::<LE>: four bytes, least significant first
read_u32_LE(data) ==
    LET r == read_exact(data, 4)
    IN  IF r.ok
        THEN [ok |-> TRUE,
              val |-> r.bytes[1] + 256 * r.bytes[2] + 65536 * r.bytes[3]
                      + 16777216 * r.bytes[4],
              rest |-> r.rest]
        ELSE [ok |-> FALSE, val |-> 0, rest |-> r.rest]

\* &magic == b"glTF"
IsMagic(m) == m = MagicGLTF

\* Header::from_reader: the header or the error, and the unread bytes
Header_from_reader(data) ==
    LET m == read_exact(data, 4)
    IN  IF ~m.ok THEN [res |-> IoError, rest |-> m.rest]
        ELSE IF IsMagic(m.bytes)
        THEN LET v == read_u32_LE(m.rest)
             IN  IF ~v.ok THEN [res |-> IoError, rest |-> v.rest]
                 ELSE LET l == read_u32_LE(v.rest)
                      IN  IF ~l.ok THEN [res |-> IoError, rest |-> l.rest]
                          ELSE [res |-> [kind |-> "Header",
                                         magic |-> m.bytes,
                                         version |-> v.val,
                                         length |-> l.val],
                                rest |-> l.rest]
        ELSE [res |-> MagicError(m.bytes), rest |-> m.rest]

\* ChunkHeader::from_reader
ChunkHeader_from_reader(data) ==
    LET l == read_u32_LE(data)
    IN  IF ~l.ok THEN [res |-> IoError, rest |-> l.rest]
        ELSE LET t == read_exact(l.rest, 4)
             IN  IF ~t.ok THEN [res |-> IoError, rest |-> t.rest]
                 ELSE [res |-> [kind |-> "ChunkHeader",
                                length |-> l.val, ty |-> t.bytes],
                       rest |-> t.rest]

\* slice::split_at: panics when mid is beyond the end
split_at(data, mid) ==
    IF mid > Len(data)
    THEN [panic |-> TRUE, left |-> <<>>, right |-> <<>>]
    ELSE [panic |-> FALSE, left |-> SubSeq(data, 1, mid),
          right |-> SubSeq(data, mid + 1, Len(data))]

\* &json_h.ty == b"JSON"
IsJsonTag(ty) == ty = TagJSON

\* &bin_h.ty == b"BIN\0"
IsBinTag(ty) == ty = TagBIN

\* a splitter that trusts the declared chunk length
ChunkFits_unchecked(length, data) == TRUE

\* json_h.length as usize <= data.len()  /  bin_h.length as usize <= data.len()
ChunkFits(length, data) == length <= Len(data)

\* a check of the length before the tag
CheckChunk_length_first(h, tagOk, data) ==
    IF ~ChunkFits(h.length, data)
    THEN ChunkLengthError(h.ty, h.length, Len(data))
    ELSE IF ~tagOk THEN ChunkTypeError(h.ty)
    ELSE h

\* the check of one chunk header: tag first, then length
CheckChunk(h, tagOk, data) ==
    IF ~tagOk THEN ChunkTypeError(h.ty)
    ELSE IF ~ChunkFits(h.length, data)
    THEN ChunkLengthError(h.ty, h.length, Len(data))
    ELSE h

\* if data.len() > 0 { second chunk } else { None }
HasSecondChunk(data) == Len(data) > 0

\* the optional BIN chunk of from_v2
from_v2_bin(json, data) ==
    IF HasSecondChunk(data)
    THEN LET ch == ChunkHeader_from_reader(data)
         IN  IF ch.res.kind # "ChunkHeader" THEN ch.res
             ELSE LET c == CheckChunk(ch.res, IsBinTag(ch.res.ty), ch.rest)
                  IN  IF c.kind # "ChunkHeader" THEN c
                      ELSE LET s == split_at(ch.rest, c.length)
                           IN  IF s.panic THEN Panic
                               ELSE [kind |-> "Ok", json |-> json,
                                     bin |-> Some(s.left)]
    ELSE [kind |-> "Ok", json |-> json, bin |-> None]

\* Glb::from_v2
from_v2(data) ==
    LET ch == ChunkHeader_from_reader(data)
    IN  IF ch.res.kind # "ChunkHeader" THEN ch.res
        ELSE LET c == CheckChunk(ch.res, IsJsonTag(ch.res.ty), ch.rest)
             IN  IF c.kind # "ChunkHeader" THEN c
                 ELSE LET s == split_at(ch.rest, c.length)
                      IN  IF s.panic THEN Panic
                          ELSE from_v2_bin(s.left, s.right)

\* .map(|(json, bin)| Glb { header, json, bin })
MakeGlb(header, r) ==
    IF r.kind = "Ok"
    THEN [kind |-> "Ok", header |-> header, json |-> r.json, bin |-> r.bin]
    ELSE r

\* a dispatch that takes every version from 2 on
VersionSupported_from_2(v) == v >= 2

\* match header.version { 2 => ..., x => Err(Version(x)) }
VersionSupported(v) == v = 2

\* a length check that asks for one byte more than declared
LengthFits_strict(length, data) == length < Len(data)

\* a from_slice that trusts the declared container length
LengthFits_unchecked(length, data) == TRUE

\* header.length as usize <= data.len()
LengthFits(length, data) == length <= Len(data)

\* a from_slice that trims the bytes to the declared container length
SliceBody_trimmed(header, data) == Take(data, header.length)

\* the bytes from_slice gives to from_v2: everything after the header
SliceBody(header, data) == data

\* Glb::from_slice
from_slice(data) ==
    LET h == Header_from_reader(data)
    IN  IF h.res.kind # "Header" THEN h.res
        ELSE IF ~LengthFits(h.res.length, h.rest)
        THEN LengthError(h.res.length, Len(h.rest))
        ELSE IF VersionSupported(h.res.version)
        THEN MakeGlb(h.res, from_v2(SliceBody(h.res, h.rest)))
        ELSE VersionError(h.res.version)

\* ------------------------------------------------- the caller's Vec<u8>
\* A cell of the buffer: its byte and where the byte comes from: "stale" (in
\* the buffer before the call), "uninit" (memory exposed by set_len and never
\* written) or "stream" (written by this call's read).
StaleCell(i) == [b |-> 83, o |-> "stale"]

Bytes(cells) == [i \in 1..Len(cells) |-> cells[i].b]

\* buf.clear(); buf.reserve(n); unsafe { buf.set_len(n) }: the n cells hold
\* what the allocation holds: the old bytes where the allocation was kept
\* (keep), otherwise arbitrary memory (u)
Grow(cells, n, keep, u) ==
    [i \in 1..n |-> IF keep /\ i <= Len(cells) THEN cells[i]
                    ELSE [b |-> u, o |-> "uninit"]]

\* reader.read(buf) returning Ok(n): the first n cells are written
ReadInto(cells, data, n) ==
    [i \in 1..Len(cells) |-> IF i <= n THEN [b |-> data[i], o |-> "stream"]
                             ELSE cells[i]]

\* an error path that leaves the grown length in place
set_len_0_skipped(cells) == cells

\* unsafe { buf.set_len(0) }
set_len_0(cells) == <<>>

\* a check that lets a short read through
ReadComplete_short(len, length) == len <= length

\* len == header.length as usize
ReadComplete(len, length) == len = length

\* what one reader.read(buf) call may return: a conforming reader at the end
\* of its stream or asked for nothing returns Ok(0); the "full" reader delivers
\* everything it can; a "faulty" one may fail or deliver less
ReadOutcomes(kind, avail, want) ==
    LET most == Min(avail, want)
    IN  IF kind = "full" THEN {[ok |-> TRUE, n |-> most]}
        ELSE {[ok |-> FALSE, n |-> 0]}
             \cup {[ok |-> TRUE, n |-> k] :
                     k \in {0, 1, most - 1, most} \cap (0..most)}

\* ------------------------------------------------------- generated inputs
Magics == {MagicGLTF, <<71, 76, 84, 70>>, <<0, 0, 0, 0>>}

Versions == {0, 1, 2, 3}

Tags == {TagJSON, TagBIN, <<88, 89, 90, 87>>}

\* payload bytes: "{}"... for JSON, DE AD BE... for BIN, FF for trailing bytes
JsonByte(i) == (123 + 2 * (i - 1)) % 128

BinByte(i) == <<222, 173, 190, 239, 202, 254>>[((i - 1) % 6) + 1]

JsonData(n) == [i \in 1..n |-> JsonByte(i)]

BinData(n) == [i \in 1..n |-> BinByte(i)]

TrailData(n) == [i \in 1..n |-> 255]

Decls(n) == {n, n + 1, HugeLen}

EncodeBody(sh) ==
    U32LE(sh.jdecl) \o sh.jtag \o JsonData(sh.jn)
    \o (IF sh.hasBin THEN U32LE(sh.bdecl) \o sh.btag \o BinData(sh.bn)
        ELSE <<>>)
    \o TrailData(sh.trail)

Encode(sh) ==
    Take(sh.magic \o U32LE(sh.version) \o U32LE(sh.hlen) \o EncodeBody(sh),
         sh.cut)

BodyLen(sh) == Len(EncodeBody(sh))

HLens(n) == {0, n, n + 1, BigLen} \cup (IF n > 0 THEN {n - 1} ELSE {})

\* chunk layouts: any tag, any declared length, with or without a second chunk
Bodies ==
    { [jtag |-> jt, jdecl |-> jd, jn |-> jn, hasBin |-> hb,
       btag |-> bt, bdecl |-> bd, bn |-> bn, trail |-> tr] :
        jt \in Tags, jn \in 0..MaxJson, jd \in 0..(MaxJson + 1) \cup {HugeLen},
        hb \in BOOLEAN, bt \in Tags, bn \in 0..MaxBin,
        bd \in 0..(MaxBin + 1) \cup {HugeLen}, tr \in 0..MaxTrail }

GoodBody(b) ==
    /\ b.jtag = TagJSON /\ b.jdecl = b.jn
    /\ b.hasBin => b.btag = TagBIN /\ b.bdecl = b.bn
    /\ ~b.hasBin => b.btag = TagBIN /\ b.bdecl = 0 /\ b.bn = 0
    /\ b.trail = 0

NormalBody(b) ==
    /\ b.jdecl \in Decls(b.jn)
    /\ b.hasBin => b.bdecl \in Decls(b.bn)
    /\ ~b.hasBin => b.btag = TagBIN /\ b.bdecl = 0 /\ b.bn = 0

WithHeader(b, m, v, l, c) ==
    [magic |-> m, version |-> v, hlen |-> l, cut |-> c,
     jtag |-> b.jtag, jdecl |-> b.jdecl, jn |-> b.jn, hasBin |-> b.hasBin,
     btag |-> b.btag, bdecl |-> b.bdecl, bn |-> b.bn, trail |-> b.trail]

Uncut(b) == 12 + BodyLen(b)

\* a well-formed container cut at any position
CutShapes ==
    UNION { { WithHeader(b, MagicGLTF, 2, BodyLen(b), c) : c \in 0..Uncut(b) } :
            b \in {x \in Bodies : GoodBody(x)} }

\* any header in front of well-formed chunks
HeaderShapes ==
    UNION { { WithHeader(b, m, v, l, Uncut(b)) :
              m \in Magics, v \in Versions, l \in HLens(BodyLen(b)) } :
            b \in {x \in Bodies : GoodBody(x)} }

\* an accepted magic and version in front of any chunk layout
ChunkShapes ==
    UNION { { WithHeader(b, MagicGLTF, 2, l, Uncut(b)) :
              l \in HLens(BodyLen(b)) \cap (0..BodyLen(b)) } :
            b \in {x \in Bodies : NormalBody(x)} }

Shapes == CutShapes \cup HeaderShapes \cup ChunkShapes

StaleBufs == {[i \in 1..n |-> StaleCell(i)] : n \in {0, MaxStale}}

UninitBytes == {85}

NoValue == [kind |-> "None"]

\* --------------------------------------------------------- state machine
VARIABLES
    shape,    \* how the input was built (the generator's parameters)
    input,    \* the bytes given to the call (the slice, or the stream)
    call,     \* "from_slice" or "from_reader"
    reader,   \* the reader's behaviour: "full" or "faulty"
    buf0,     \* the caller's buffer before the call
    pc,       \* "start", "grown" (after set_len(header.length)), "done"
    stream,   \* the bytes the reader has not delivered yet
    buf,      \* the caller's buffer
    header,   \* the accepted header of from_reader
    rd,       \* what reader.read(buf) returned
    stage,    \* where the call returned: "header", "read" or "split"
    result    \* the value returned

vars == <<shape, input, call, reader, buf0, pc, stream, buf, header, rd,
          stage, result>>

Init ==
    /\ shape \in Shapes
    /\ input = Encode(shape)
    /\ \E c \in {"from_slice", "from_reader"} :
          /\ call = c
          /\ reader \in (IF c = "from_slice" THEN {"full"}
                         ELSE {"full", "faulty"})
          /\ buf0 \in (IF c = "from_slice" THEN {<<>>} ELSE StaleBufs)
    /\ pc = "start"
    /\ stream = input
    /\ buf = buf0
    /\ header = NoValue
    /\ rd = NoValue
    /\ stage = "none"
    /\ result = NoValue

\* Glb::from_slice(data)
FromSlice ==
    /\ call = "from_slice" /\ pc = "start"
    /\ result' = from_slice(input)
    /\ pc' = "done"
    /\ stage' = "slice"
    /\ UNCHANGED <<shape, input, call, reader, buf0, stream, buf, header, rd>>

\* Glb::from_reader, up to unsafe { buf.set_len(header.length) }
FromReaderBegin ==
    /\ call = "from_reader" /\ pc = "start"
    /\ \E fail \in (IF reader = "faulty" THEN BOOLEAN ELSE {FALSE}),
          keep \in BOOLEAN, u \in UninitBytes :
          LET h == IF fail THEN [res |-> IoError, rest |-> stream]
                   ELSE Header_from_reader(stream)
          IN  /\ stream' = h.rest
              /\ IF h.res.kind # "Header"
                 THEN /\ result' = h.res
                      /\ pc' = "done" /\ stage' = "header"
                      /\ UNCHANGED <<buf, header>>
                 ELSE IF VersionSupported(h.res.version)
                 THEN /\ buf' = Grow(buf, h.res.length, keep, u)
                      /\ header' = h.res
                      /\ pc' = "grown"
                      /\ UNCHANGED <<result, stage>>
                 ELSE /\ result' = VersionError(h.res.version)
                      /\ pc' = "done" /\ stage' = "header"
                      /\ UNCHANGED <<buf, header>>
    /\ UNCHANGED <<shape, input, call, reader, buf0, rd>>

\* Glb::from_reader, from reader.read(buf) to the return
FromReaderRead ==
    /\ call = "from_reader" /\ pc = "grown"
    /\ \E out \in ReadOutcomes(reader, Len(stream), Len(buf)) :
          LET filled == IF out.ok THEN ReadInto(buf, stream, out.n) ELSE buf
          IN  /\ rd' = out
              /\ stream' = Drop(stream, out.n)
              /\ IF out.ok /\ ReadComplete(out.n, header.length)
                 THEN /\ buf' = filled
                      /\ result' = MakeGlb(header, from_v2(Bytes(filled)))
                      /\ stage' = "split"
                 ELSE /\ buf' = set_len_0(filled)
                      /\ result' = IF out.ok
                                   THEN LengthError(header.length, out.n)
                                   ELSE IoError
                      /\ stage' = "read"
    /\ pc' = "done"
    /\ UNCHANGED <<shape, input, call, reader, buf0, header>>

Next == FromSlice \/ FromReaderBegin \/ FromReaderRead

Spec == Init /\ [][Next]_vars

\* ------------------------------------------------- vocabulary of the claims
Done == pc = "done"

\* the bytes present after the 12-byte header
Body == Drop(input, 12)

\* the header is complete and carries the magic
HeaderComplete == shape.cut >= 12 /\ shape.magic = MagicGLTF

\* the reader did not fail while the header was read
HeaderDelivered == call = "from_reader" => stage # "header" \/ result # IoError

\* the call went past the header: magic, version, container length and, for
\* from_reader, a read that delivered header.length bytes
Accepted ==
    /\ Done /\ HeaderComplete /\ shape.version = 2
    /\ shape.hlen <= Len(Body)
    /\ call = "from_reader" => rd # NoValue /\ rd.ok /\ rd.n = shape.hlen

\* the bytes the chunk splitter is given
Seen == IF call = "from_slice" THEN Body ELSE Take(Body, shape.hlen)

Tag1 == SubSeq(Seen, 5, 8)

Rest2 == Drop(Seen, 8 + shape.jdecl)

Tag2 == SubSeq(Rest2, 5, 8)

\* the input is the container of the round trip: magic, version 2, a JSON
\* chunk and an optional BIN chunk with their true lengths, nothing else
Synthesized ==
    /\ shape.magic = MagicGLTF /\ shape.version = 2
    /\ shape.jtag = TagJSON /\ shape.jdecl = shape.jn
    /\ shape.hasBin => shape.btag = TagBIN /\ shape.bdecl = shape.bn
    /\ shape.trail = 0

Whole == shape.cut = 12 + BodyLen(shape)

RoundTrip ==
    /\ result.kind = "Ok"
    /\ result.json = JsonData(shape.jn)
    /\ result.bin = IF shape.hasBin THEN Some(BinData(shape.bn)) ELSE None

ErrorKinds == {"Io", "Magic", "Version", "Length", "ChunkLength", "ChunkType"}

AllFromStream ==
    \A i \in 1..Len(buf) : buf[i].o = "stream" /\ buf[i].b = Body[i]

\* the input with another value in the header's length field
WithLength(data, l) == Take(data, 8) \o U32LE(l) \o Drop(data, 12)

\* a result without its header
Strip(r) == IF r.kind = "Ok" THEN [kind |-> "Ok", json |-> r.json, bin |-> r.bin]
            ELSE r

\* ------------------------------------------------------------------ claims

C3_NoExposure ==
    /\ pc = "grown" => result = NoValue /\ rd = NoValue
    /\ Done /\ call = "from_reader" /\ stage # "header" => AllFromStream

\* a buffer that held stale bytes comes back filled from the stream
C3_Witness ==
    /\ Done /\ call = "from_reader" /\ stage = "split" /\ result.kind = "Ok"
    /\ Len(buf0) > 0 /\ Len(buf) > Len(buf0)

\* C4: after the buffer was grown, a failed read returns Io and a short read
\* returns Length(header.length, bytes read); the buffer's length is then 0.
C4_ResetOnFailure ==
    Done /\ rd # NoValue /\ (~rd.ok \/ rd.n < header.length)
    => /\ Len(buf) = 0
       /\ result = IF rd.ok THEN LengthError(header.length, rd.n) ELSE IoError

C4_Witness ==
    /\ Done /\ rd # NoValue /\ rd.ok /\ rd.n > 0 /\ rd.n < header.length
    /\ Len(buf0) > 0 /\ Len(buf) = 0

\* C5: when from_reader returns an error, the buffer is unchanged if only the
\* header was read and empty in every other case.
C5_BufferAfterError ==
    Done /\ call = "from_reader" /\ result.kind # "Ok"
    => IF stage = "header" THEN buf = buf0 ELSE buf = <<>>

\* C6 (as stated): a complete header with the magic and a version other than
\* 2 yields Version(version) from both entry points, whatever its length field.
C6_Original ==
    Done /\ HeaderComplete /\ HeaderDelivered /\ shape.version # 2
    => result = VersionError(shape.version)

\* C6 (amended): such a header yields Version(version) from from_reader
\* whatever its length field, and from from_slice when the length field is <=
\* the bytes following the header (otherwise from_slice yields Length); with
\* version 2 the call goes on to the container length and the chunks.
C6_VersionRejection ==
    /\ Done /\ HeaderComplete /\ HeaderDelivered /\ shape.version # 2
       => result = IF call = "from_slice" /\ shape.hlen > Len(Body)
                   THEN LengthError(shape.hlen, Len(Body))
                   ELSE VersionError(shape.version)
    /\ Done /\ HeaderComplete /\ HeaderDelivered /\ shape.version = 2
       => /\ result.kind # "Version"
          /\ call = "from_reader" => stage \in {"read", "split"}

C6_Witness ==
    /\ Done /\ call = "from_slice" /\ shape.version = 3
    /\ result = VersionError(3)

\* a well-formed container cut before its end
Truncated ==
    /\ Synthesized /\ shape.hlen = BodyLen(shape)
    /\ shape.cut < 12 + BodyLen(shape)

InsideHeader == shape.cut < 12

InsideChunk ==
    \/ 12 < shape.cut /\ shape.cut < 20 + shape.jn
    \/ 20 + shape.jn < shape.cut

\* C7 (as stated): a well-formed container cut inside the header or inside a
\* chunk yields Io.
C7_Original ==
    Done /\ Truncated /\ reader = "full" /\ (InsideHeader \/ InsideChunk)
    => result = IoError

\* C7 (amended): cut inside the header it yields Io; cut inside a chunk it
\* yields Length carrying the length field and the bytes present after the
\* header.
C7_Truncation ==
    Done /\ Truncated /\ reader = "full"
    => /\ InsideHeader => result = IoError
       /\ InsideChunk => result = LengthError(shape.hlen, shape.cut - 12)

C7_Witness ==
    /\ Done /\ Truncated /\ call = "from_reader" /\ reader = "full"
    /\ InsideChunk /\ shape.hasBin /\ shape.cut > 20 + shape.jn
    /\ result.kind = "Length"

\* C8: a first chunk whose tag is not "JSON", or a second chunk whose tag is
\* not "BIN\0", yields ChunkType(tag) whatever the chunk's declared length.
C8_ChunkType ==
    /\ Accepted /\ Len(Seen) >= 8 /\ Tag1 # TagJSON
       => result = ChunkTypeError(Tag1)
    /\ Accepted /\ Len(Seen) >= 8 /\ Tag1 = TagJSON
         /\ shape.jdecl <= Len(Seen) - 8 /\ Len(Rest2) >= 8 /\ Tag2 # TagBIN
       => result = ChunkTypeError(Tag2)

\* a wrong tag with a declared length beyond the bytes remaining
C8_Witness ==
    /\ Accepted /\ Len(Seen) >= 8 /\ Tag1 = TagJSON
    /\ shape.jdecl <= Len(Seen) - 8 /\ Len(Rest2) >= 8 /\ Tag2 = TagJSON
    /\ shape.hasBin /\ shape.bdecl = HugeLen
    /\ result = ChunkTypeError(TagJSON)

\* C9: from_slice uses the length field only for its check: every other
\* length field that passes the check gives the same json and bin or the same
\* chunk error.
C9_LengthIgnored ==
    Done /\ call = "from_slice" /\ HeaderComplete /\ shape.version = 2
         /\ shape.hlen <= Len(Body)
    => \A l \in 0..Len(Body) :
          Strip(from_slice(WithLength(input, l))) = Strip(result)

\* a decode that succeeds with a chunk ending beyond header.length and with
\* bytes after the binary chunk
C9_Witness ==
    /\ Done /\ call = "from_slice" /\ result.kind = "Ok"
    /\ shape.hlen < 16 + shape.jn + shape.bn
    /\ shape.hasBin /\ shape.bn > 0 /\ shape.trail > 0
    /\ result.bin = Some(BinData(shape.bn))

\* the header decoder rejects the header or finds it incomplete
HeaderRejected == shape.cut < 12 \/ shape.magic # MagicGLTF

\* C10 (as stated): when the length field equals the bytes following the
\* header, or the header is rejected or incomplete, from_reader over a reader
\* that delivers everything returns what from_slice returns.
C10_Original ==
    Done /\ call = "from_reader" /\ reader = "full"
         /\ (shape.hlen = Len(Body) \/ HeaderRejected \/ shape.version # 2)
    => result = from_slice(input)

\* C10 (amended): the same, a header being rejected for its magic, or for
\* its version when its length field is <= the bytes following it.
C10_Agreement ==
    Done /\ call = "from_reader" /\ reader = "full"
         /\ \/ shape.hlen = Len(Body)
            \/ HeaderRejected
            \/ shape.version # 2 /\ shape.hlen <= Len(Body)
    => result = from_slice(input)

C10_Witness ==
    /\ Done /\ call = "from_reader" /\ reader = "full"
    /\ shape.cut >= 12 /\ shape.hlen = Len(Body) /\ shape.hasBin
    /\ result.kind = "Ok" /\ result = from_slice(input)

====
